---- MODULE Spec2Model ----
(***************************************************************************)
(* Model of the romst index writer (src/data/writer/sqlite.rs): the write  *)
(* buffer with its rom id counter, the batched flush transaction and the   *)
(* parent back-fill of finish, over a relational store that holds the      *)
(* tables roms, games, game_roms and samples.                              *)
(***************************************************************************)
EXTENDS Integers, Sequences, FiniteSets, TLC

(***************************************************************************)
(* Bounds and input domains                                                *)
(***************************************************************************)
\* Number of on_new_entry calls in one behaviour (all sessions together).
MaxEntries == 2

\* Option::None of the code and NULL of the store.
NONE == "none"

\* buffer_size values the caller configures (u16).
BufferSizes == {1, 2, 3}

GameNames == {"pacman", "pacmanjp"}

\* Game { name, clone_of, sample_of }: the fields the writer reads. A game
\* is a clone of nothing, of pacman (pacman of itself then), and belongs to
\* no sample pack or to pacsnd.
Games ==
    [name : GameNames, clone_of : {NONE, "pacman"}, sample_of : {NONE, "pacsnd"}]

MkFile(n, s, m) ==
    [name |-> n, sha1 |-> s, md5 |-> m, crc |-> NONE, size |-> 8, status |-> NONE]

\* The roms of an entry. a.rom/aa and b.rom/aa are two names of one
\* content; a.rom/aa/m1 declares a digest that a.rom/aa leaves absent;
\* b.rom/bb is another content.
RomLists ==
    { <<MkFile("a.rom", "aa", NONE)>>, <<MkFile("a.rom", "aa", "m1")>>,
      <<MkFile("a.rom", "aa", NONE), MkFile("b.rom", "aa", NONE)>>,
      <<MkFile("b.rom", "bb", NONE), MkFile("a.rom", "aa", NONE)>> }

\* Vec<String> of sample names of an entry.
SampleLists == {<<>>, <<"hit.wav">>}

\* The entries of the DAT: a game with its roms and its samples; a game of
\* a sample pack comes with a sample, another game with none.
Entries ==
    {e \in [game : Games, roms : RomLists, samples : SampleLists] :
        (e.game.sample_of = NONE) <=> (e.samples = <<>>)}

\* Byte-wise order of the rom names (String's Ord).
NameRank(n) == CASE n = "a.rom" -> 1 [] n = "b.rom" -> 2 [] OTHER -> 3

(***************************************************************************)
(* Helpers                                                                 *)
(***************************************************************************)
Range(s) == {s[i] : i \in 1..Len(s)}

SetMax(S) == CHOOSE x \in S : \A y \in S : y <= x

SetMin(S) == CHOOSE x \in S : \A y \in S : x <= y

\* HashMap::insert: the value of an existing key is replaced.
MapPut(m, k, v) == [x \in (DOMAIN m) \cup {k} |-> IF x = k THEN v ELSE m[x]]

EmptyMap == [x \in {} |-> NONE]

(***************************************************************************)
(* IdsCounter and Buffer                                                   *)
(***************************************************************************)
\* IdsCounter::new: the rom counter starts at 0.
IdsCounter_new == [rom |-> 0]

\* get_next_rom without the increment.
get_next_rom_stuck(ids) == [id |-> ids.rom, ids |-> ids]

\* get_next_rom that steps over an id.
get_next_rom_by_two(ids) == [id |-> ids.rom, ids |-> [rom |-> ids.rom + 2]]

\* IdsCounter::get_next_rom: returns the counter and increments it.
get_next_rom(ids) == [id |-> ids.rom, ids |-> [rom |-> ids.rom + 1]]

\* Equality of two DataFile values, the key equality of Buffer.roms
\* (HashMap<DataFile, u32>) and of the HashSet<DataFile> of RomSearch.
DataFileEq(a, b) ==
    /\ a.name = b.name
    /\ a.sha1 = b.sha1
    /\ a.md5 = b.md5
    /\ a.crc = b.crc
    /\ a.size = b.size

\* Buffer::new. roms is a set of [file, id] entries, at most one per key.
Buffer_new ==
    [ids |-> IdsCounter_new, games |-> EmptyMap, roms |-> {},
     game_roms |-> EmptyMap, samples |-> EmptyMap]

\* Buffer::len
Buffer_len(b) == Cardinality(DOMAIN b.games) + Cardinality(DOMAIN b.samples)

\* Buffer::add_game
Buffer_add_game(b, game_name, game) ==
    [b EXCEPT !.games = MapPut(b.games, game_name, game)]

\* Buffer::add_roms: the buffered id of a rom whose key is in the buffer,
\* else the next id of the counter. rom_ids is the Vec<(u32, DataFile)>.
RECURSIVE Buffer_add_roms_from(_, _, _)
Buffer_add_roms_from(b, roms, rom_ids) ==
    IF roms = <<>> THEN [buffer |-> b, rom_ids |-> rom_ids]
    ELSE LET rom  == Head(roms)
             hits == {e \in b.roms : DataFileEq(e.file, rom)}
         IN IF hits # {}
            THEN Buffer_add_roms_from(b, Tail(roms),
                     Append(rom_ids, <<(CHOOSE e \in hits : TRUE).id, rom>>))
            ELSE LET n == get_next_rom(b.ids)
                 IN Buffer_add_roms_from(
                        [b EXCEPT !.ids = n.ids,
                                  !.roms = b.roms \cup {[file |-> rom, id |-> n.id]}],
                        Tail(roms), Append(rom_ids, <<n.id, rom>>))

Buffer_add_roms(b, roms) == Buffer_add_roms_from(b, roms, <<>>)

\* Buffer::add_roms_for_game
Buffer_add_roms_for_game(b, game_name, rom_ids) ==
    [b EXCEPT !.game_roms = MapPut(b.game_roms, game_name, rom_ids)]

\* Buffer_add_sample_pack that replaces the samples of the pack.
Buffer_add_sample_pack_replaces(b, sample_pack, samples) ==
    [b EXCEPT !.samples = MapPut(b.samples, sample_pack, Range(samples))]

\* Buffer::add_sample_pack: entry(pack).or_insert(empty).extend(samples)
Buffer_add_sample_pack(b, sample_pack, samples) ==
    LET old == IF sample_pack \in DOMAIN b.samples THEN b.samples[sample_pack] ELSE {}
    IN [b EXCEPT !.samples = MapPut(b.samples, sample_pack, old \cup Range(samples))]

(***************************************************************************)
(* The store                                                               *)
(***************************************************************************)
\* The tables as create_schema leaves them: all empty.
EmptyDb == [roms |-> {}, games |-> {}, game_roms |-> {}, samples |-> {}]

\* A stored rom row answers a query file: every digest the query declares
\* equals the stored one; a digest the query leaves absent is ignored.
RowMatches(row, q) ==
    /\ q.sha1 # NONE => row.sha1 = q.sha1
    /\ q.md5 # NONE => row.md5 = q.md5
    /\ q.crc # NONE => row.crc = q.crc

\* DBReader::get_ids_from_files: the files split in those with a committed
\* id (found, with the id) and the others (not_found), each in input order.
RECURSIVE get_ids_from_files_from(_, _, _, _)
get_ids_from_files_from(db, roms, found, not_found) ==
    IF roms = <<>> THEN [found |-> found, not_found |-> not_found]
    ELSE LET rom == Head(roms)
             ids == {row.id : row \in {r \in db.roms : RowMatches(r, rom)}}
         IN IF ids # {}
            THEN get_ids_from_files_from(db, Tail(roms),
                     Append(found, <<SetMin(ids), rom>>), not_found)
            ELSE get_ids_from_files_from(db, Tail(roms), found,
                     Append(not_found, rom))

get_ids_from_files(db, roms) == get_ids_from_files_from(db, roms, <<>>, <<>>)

\* Ord of (u32, String): by id, then by name.
PairLess(p, q) ==
    \/ p[1] < q[1]
    \/ p[1] = q[1] /\ NameRank(p[2]) < NameRank(q[2])

\* Vec::sort
RECURSIVE SortInsert(_, _)
SortInsert(sorted, p) ==
    IF sorted = <<>> THEN <<p>>
    ELSE IF PairLess(p, Head(sorted)) THEN <<p>> \o sorted
    ELSE <<Head(sorted)>> \o SortInsert(Tail(sorted), p)

RECURSIVE VecSort(_)
VecSort(v) == IF v = <<>> THEN <<>> ELSE SortInsert(VecSort(Tail(v)), Head(v))

\* VecDedup that removes nothing.
VecDedup_keeps(v) == v

\* Vec::dedup: removes consecutive equal elements.
RECURSIVE VecDedup(_)
VecDedup(v) ==
    IF Len(v) <= 1 THEN v
    ELSE IF v[1] = v[2] THEN VecDedup(Tail(v))
    ELSE <<Head(v)>> \o VecDedup(Tail(v))

IdName(rom_ids) == [i \in 1..Len(rom_ids) |-> <<rom_ids[i][1], rom_ids[i][2].name>>]

\* DBWriter::get_rom_ids: ids of the store first, the buffer for the rest;
\* the (id, name) pairs sorted and deduplicated. resolved is the
\* (id, DataFile) pairs behind the returned names.
get_rom_ids(b, db, roms) ==
    LET rom_ids   == get_ids_from_files(db, roms)
        in_buffer == Buffer_add_roms(b, rom_ids.not_found)
        all       == rom_ids.found \o in_buffer.rom_ids
    IN [buffer |-> in_buffer.buffer,
        rom_name_pair |-> VecDedup(VecSort(IdName(all))),
        resolved |-> {[id |-> p[1], file |-> p[2]] : p \in Range(all)}]

(***************************************************************************)
(* Flush and back-fill                                                     *)
(***************************************************************************)
\* Storage failures a transaction can meet: none, a failing rom insert, a
\* failing single samples insert (row), a failing commit, and a failure of
\* the back-fill transaction of finish.
NoFault == [kind |-> "none", row |-> <<>>]

\* INSERT INTO games (name, clone_of, rom_of, source_file, info_desc,
\* info_year, info_manuf): the row of a buffered game; sample_of is not in
\* the column list and stays NULL.
GameRow(game) == [name |-> game.name, clone_of |-> game.clone_of, sample_of |-> NONE]

\* INSERT INTO roms (id, sha1, md5, crc, size, status)
RomRow(e) ==
    [id |-> e.id, sha1 |-> e.file.sha1, md5 |-> e.file.md5, crc |-> e.file.crc,
     size |-> e.file.size, status |-> e.file.status]

\* MemberRows that fills the parent column at the flush.
MemberRows_linked(b) ==
    UNION {{[game_name |-> g, rom_id |-> b.game_roms[g][i][1],
             name |-> b.game_roms[g][i][2], parent |-> "pacman"]
              : i \in 1..Len(b.game_roms[g])} : g \in DOMAIN b.game_roms}

\* INSERT INTO game_roms (game_name, rom_id, name): parent stays NULL.
MemberRows(b) ==
    UNION {{[game_name |-> g, rom_id |-> b.game_roms[g][i][1],
             name |-> b.game_roms[g][i][2], parent |-> NONE]
              : i \in 1..Len(b.game_roms[g])} : g \in DOMAIN b.game_roms}

SampleRows(b) ==
    UNION {{[sample_set |-> k, sample |-> x] : x \in b.samples[k]} : k \in DOMAIN b.samples}

\* The failures the next flush of buffer b can meet.
Faults(b) ==
    {NoFault, [kind |-> "commit", row |-> <<>>]}
      \cup (IF b.roms # {} THEN {[kind |-> "rom", row |-> <<>>]} ELSE {})
      \cup {[kind |-> "sample", row |-> <<r.sample_set, r.sample>>] : r \in SampleRows(b)}

MemberKey(r) == <<r.game_name, r.rom_id, r.name>>

\* The games and game_roms inserts of a flush that violate the primary
\* key of their table, and the samples insert that meets the failure: each
\* is logged and skipped.
SkippedRows(b, db, fault) ==
    {r \in {GameRow(b.games[g]) : g \in DOMAIN b.games} :
        r.name \in {x.name : x \in db.games}}
      \cup {r \in MemberRows(b) : MemberKey(r) \in {MemberKey(x) : x \in db.game_roms}}
      \cup {r \in SampleRows(b) :
              fault.kind = "sample" /\ fault.row = <<r.sample_set, r.sample>>}

\* FlushFails where a skipped row is an error as well.
FlushFails_any_row(b, db, fault) ==
    \/ fault.kind \in {"rom", "commit"}
    \/ \E e \in b.roms : e.id \in {x.id : x \in db.roms}
    \/ SkippedRows(b, db, fault) # {}

\* write_buffer returns an error: a roms insert fails (the storage
\* failure, or an id that the roms table holds already) or the commit does.
FlushFails(b, db, fault) ==
    \/ fault.kind \in {"rom", "commit"}
    \/ \E e \in b.roms : e.id \in {x.id : x \in db.roms}

\* Dropped that keeps what the transaction wrote.
Dropped_keeps(before, written) == written

\* The store after a transaction that ends without commit: rolled back.
Dropped(before, written) == before

\* Written that leaves the roms table as it was.
Written_without_roms(b, db, fault) ==
    LET skipped == SkippedRows(b, db, fault)
    IN [roms |-> db.roms,
        games |-> db.games \cup ({GameRow(b.games[g]) : g \in DOMAIN b.games} \ skipped),
        game_roms |-> db.game_roms \cup (MemberRows(b) \ skipped),
        samples |-> db.samples \cup (SampleRows(b) \ skipped)]

\* The store with every insert of the flush that did not fail.
Written(b, db, fault) ==
    LET skipped == SkippedRows(b, db, fault)
    IN [roms |-> db.roms \cup {RomRow(e) : e \in b.roms},
        games |-> db.games \cup ({GameRow(b.games[g]) : g \in DOMAIN b.games} \ skipped),
        game_roms |-> db.game_roms \cup (MemberRows(b) \ skipped),
        samples |-> db.samples \cup (SampleRows(b) \ skipped)]

\* The store with the games rows of the flush, the inserts that precede
\* the roms inserts.
WrittenGames(b, db, fault) ==
    [db EXCEPT !.games = Written(b, db, fault).games]

\* DBWriter::write_buffer. One transaction; an error leaves the buffer as
\* it was; after the commit the four buffers are cleared, the counter is
\* not.
write_buffer(b, db, fault) ==
    IF FlushFails(b, db, fault)
    THEN [ok |-> FALSE, buffer |-> b,
          db |-> Dropped(db, WrittenGames(b, db, fault)), skipped |-> {}]
    ELSE [ok |-> TRUE,
          buffer |-> [b EXCEPT !.games = EmptyMap, !.roms = {},
                               !.game_roms = EmptyMap, !.samples = EmptyMap],
          db |-> Written(b, db, fault),
          skipped |-> SkippedRows(b, db, fault)]

\* DBWriter::get_roms_from_parents: (child, rom_id, parent) for every row
\* of game_roms whose game is the clone_of of a game of the games table.
get_roms_from_parents(db) ==
    {<<g.name, r.rom_id, r.game_name>> : <<g, r>> \in
        {x \in db.games \X db.game_roms :
            x[1].clone_of # NONE /\ x[1].clone_of = x[2].game_name}}

\* UpdateParents whose WHERE leaves out the rom_id.
UpdateParents_any_rom(game_roms, items) ==
    {LET hits == {i \in items : i[1] = r.game_name}
     IN IF hits = {} THEN r
        ELSE [r EXCEPT !.parent = (CHOOSE i \in hits : TRUE)[3]] : r \in game_roms}

\* UPDATE game_roms SET parent = ?1 WHERE game_name = ?2 AND rom_id = ?3,
\* once per item.
UpdateParents(game_roms, items) ==
    {LET hits == {i \in items : i[1] = r.game_name /\ i[2] = r.rom_id}
     IN IF hits = {} THEN r
        ELSE [r EXCEPT !.parent = (CHOOSE i \in hits : TRUE)[3]] : r \in game_roms}

\* usize as u16
U16 == 65536

AsU16(n) == n % U16

\* add_game that flushes only above buffer_size.
DBWriter_add_game_above(b, db, buffer_size, game, fault) ==
    LET b1  == Buffer_add_game(b, game.name, game)
        due == AsU16(Buffer_len(b1)) > buffer_size
    IN IF due
       THEN LET w == write_buffer(b1, db, fault)
            IN [ok |-> w.ok, buffer |-> w.buffer, db |-> w.db, due |-> TRUE,
                batch |-> <<b1>>, skipped |-> w.skipped]
       ELSE [ok |-> TRUE, buffer |-> b1, db |-> db, due |-> FALSE,
             batch |-> <<>>, skipped |-> {}]

\* DBWriter::add_game: buffers the game, then flushes when the buffer
\* length reaches buffer_size.
DBWriter_add_game(b, db, buffer_size, game, fault) ==
    LET b1  == Buffer_add_game(b, game.name, game)
        due == AsU16(Buffer_len(b1)) >= buffer_size
    IN IF due
       THEN LET w == write_buffer(b1, db, fault)
            IN [ok |-> w.ok, buffer |-> w.buffer, db |-> w.db, due |-> TRUE,
                batch |-> <<b1>>, skipped |-> w.skipped]
       ELSE [ok |-> TRUE, buffer |-> b1, db |-> db, due |-> FALSE,
             batch |-> <<>>, skipped |-> {}]

\* DBWriter::add_roms_for_game
DBWriter_add_roms_for_game(b, db, roms, game_name) ==
    LET r == get_rom_ids(b, db, roms)
    IN [buffer |-> Buffer_add_roms_for_game(r.buffer, game_name, r.rom_name_pair),
        resolved |-> r.resolved]

\* DBWriter::add_samples
DBWriter_add_samples(b, samples, sample_pack) ==
    Buffer_add_sample_pack(b, sample_pack, samples)

\* DataWriter::on_new_entry for DBWriter: add_game (with its flush), then
\* the roms of the entry, then its samples when the game has a sample_of.
on_new_entry(b, db, buffer_size, game, roms, samples, fault) ==
    LET g == DBWriter_add_game(b, db, buffer_size, game, fault)
    IN IF ~g.ok
       THEN [ok |-> FALSE, buffer |-> g.buffer, db |-> g.db, due |-> g.due,
             batch |-> g.batch, skipped |-> g.skipped, resolved |-> {}]
       ELSE LET r  == DBWriter_add_roms_for_game(g.buffer, g.db, roms, game.name)
                b3 == IF game.sample_of # NONE
                      THEN DBWriter_add_samples(r.buffer, samples, game.sample_of)
                      ELSE r.buffer
            IN [ok |-> TRUE, buffer |-> b3, db |-> g.db, due |-> g.due,
                batch |-> g.batch, skipped |-> g.skipped, resolved |-> r.resolved]

\* DataWriter::finish for DBWriter: flush, then the parent back-fill in a
\* transaction of its own.
finish(b, db, fault) ==
    LET w == write_buffer(b, db, fault)
    IN IF ~w.ok
       THEN [ok |-> FALSE, buffer |-> w.buffer, db |-> w.db, flushed |-> FALSE,
             skipped |-> {}]
       ELSE IF fault.kind = "backfill"
       THEN [ok |-> FALSE, buffer |-> w.buffer, db |-> w.db, flushed |-> TRUE,
             skipped |-> w.skipped]
       ELSE [ok |-> TRUE, buffer |-> w.buffer,
             db |-> [w.db EXCEPT !.game_roms =
                        UpdateParents(w.db.game_roms, get_roms_from_parents(w.db))],
             flushed |-> TRUE, skipped |-> w.skipped]

\* init that creates the tables that are missing and keeps the others.
init_keeps_rows(db) == db

\* DataWriter::init for DBWriter (create_schema): every table dropped and
\* created again, empty.
init(db) == EmptyDb

(***************************************************************************)
(* The schema: tables and indexes of the store file                        *)
(***************************************************************************)
\* The tables create_schema creates, in its order, each with the indexes
\* its create_table_* function creates after it.
SchemaTables ==
    << [table |-> "info", indexes |-> <<>>],
       [table |-> "roms",
        indexes |-> <<"roms_sha1", "roms_md5", "roms_crc", "roms_checks">>],
       [table |-> "games", indexes |-> <<"games_parents", "games_samples">>],
       [table |-> "game_roms",
        indexes |-> <<"game_roms_game", "game_roms_rom", "game_roms_parents">>],
       [table |-> "devices", indexes |-> <<"devices_games", "devices_refs">>],
       [table |-> "disks", indexes |-> <<"disks_sha1">>],
       [table |-> "game_disks", indexes |-> <<"game_disks_game", "game_disks_disks">>],
       [table |-> "samples", indexes |-> <<"sample_sets">>] >>

ReservedTables == {SchemaTables[i].table : i \in 1..Len(SchemaTables)}

\* Tables of other names that the file can hold: notes, and one that has
\* the name of an index of the schema.
OtherTables == {"notes", "games_samples"}

TableNames == ReservedTables \cup OtherTables

\* The file before any use: no table, no index. tables is the names of
\* the tables of the file, rows the rows of each; row stands for the
\* content of a table that has some.
EmptyFile == [tables |-> {}, rows |-> [t \in TableNames |-> {}], indexes |-> {}]

\* The indexes the schema gives table t.
SchemaIndexes(t) ==
    UNION {{[name |-> SchemaTables[i].indexes[k], table |-> t]
              : k \in 1..Len(SchemaTables[i].indexes)}
           : i \in {j \in 1..Len(SchemaTables) : SchemaTables[j].table = t}}

\* The files init can meet: every table absent or with rows, a table of
\* the schema with the indexes an earlier init gave it.
Files ==
    {[tables |-> ts,
      rows |-> [t \in TableNames |-> IF t \in ts THEN {"row"} ELSE {}],
      indexes |-> UNION {SchemaIndexes(t) : t \in ts \cap ReservedTables}]
       : ts \in SUBSET TableNames}

\* sqlite_master has a table or an index of this name: tables and indexes
\* share the names of a database.
NameTaken(s, name) ==
    \/ name \in s.tables
    \/ \E i \in s.indexes : i.name = name

\* DBWriter::remove_table_if_exist: DROP TABLE of a table that
\* sqlite_master lists, with its indexes.
remove_table_if_exist(s, table_name) ==
    IF table_name \in s.tables
    THEN [ok |-> TRUE,
          store |-> [tables |-> s.tables \ {table_name},
                     rows |-> [s.rows EXCEPT ![table_name] = {}],
                     indexes |-> {i \in s.indexes : i.table # table_name}]]
    ELSE [ok |-> TRUE, store |-> s]

\* conn.execute("CREATE TABLE name (...)")?
CreateTable(s, name) ==
    IF NameTaken(s, name) THEN [ok |-> FALSE, store |-> s]
    ELSE [ok |-> TRUE, store |-> [s EXCEPT !.tables = s.tables \cup {name}]]

\* conn.execute("CREATE INDEX name ON table(...)")?
CreateIndex(s, name, table) ==
    IF NameTaken(s, name) THEN [ok |-> FALSE, store |-> s]
    ELSE [ok |-> TRUE,
          store |-> [s EXCEPT !.indexes = s.indexes \cup {[name |-> name, table |-> table]}]]

\* The indexes of a create_table_* function from the k-th on; the first
\* error is returned (?).
RECURSIVE CreateIndexes(_, _, _, _)
CreateIndexes(s, table, names, k) ==
    IF k > Len(names) THEN [ok |-> TRUE, store |-> s]
    ELSE LET r == CreateIndex(s, names[k], table)
         IN IF r.ok THEN CreateIndexes(r.store, table, names, k + 1) ELSE r

\* create_table_info .. create_table_samples: remove_table_if_exist, then
\* CREATE TABLE, then the CREATE INDEX statements.
create_table(s, t) ==
    LET d == remove_table_if_exist(s, t.table)
        c == CreateTable(d.store, t.table)
    IN IF ~c.ok THEN c ELSE CreateIndexes(c.store, t.table, t.indexes, 1)

\* DBWriter::create_schema from its k-th create_table_* call on.
RECURSIVE create_schema_from(_, _)
create_schema_from(s, k) ==
    IF k > Len(SchemaTables) THEN [ok |-> TRUE, store |-> s]
    ELSE LET r == create_table(s, SchemaTables[k])
         IN IF r.ok THEN create_schema_from(r.store, k + 1) ELSE r

create_schema(s) == create_schema_from(s, 1)

(***************************************************************************)
(* FileChecks and FileCheckSearch                                          *)
(***************************************************************************)
\* bitflags FileChecks: three independent bits and ALL, their union.
FileChecks_SHA1 == 1

FileChecks_MD5 == 2

FileChecks_CRC == 4

FileChecks_ALL == 7

\* a & b, bit by bit.
RECURSIVE BitAnd(_, _)
BitAnd(a, b) ==
    IF a = 0 \/ b = 0 THEN 0
    ELSE (a % 2) * (b % 2) + 2 * BitAnd(a \div 2, b \div 2)

\* !a of bitflags: the complement within the bits of ALL.
BitNot(a) == FileChecks_ALL - BitAnd(a, FileChecks_ALL)

\* FileChecks::contains
Contains(checks, flag) == BitAnd(checks, flag) = flag

\* get_file_checks whose md5 branch clears the crc bit.
get_file_checks_wrong_bit(c) ==
    LET c1 == IF c.sha1 = 0 THEN BitAnd(FileChecks_ALL, BitNot(FileChecks_SHA1))
              ELSE FileChecks_ALL
        c2 == IF c.md5 = 0 THEN BitAnd(c1, BitNot(FileChecks_CRC)) ELSE c1
        c3 == IF c.crc = 0 THEN BitAnd(c2, BitNot(FileChecks_CRC)) ELSE c2
    IN c3

\* FileCheckSearch::get_file_checks: ALL, with the bit of every column
\* whose count is 0 cleared. c is the FileCheckSearch {sha1, md5, crc}.
get_file_checks(c) ==
    LET c1 == IF c.sha1 = 0 THEN BitAnd(FileChecks_ALL, BitNot(FileChecks_SHA1))
              ELSE FileChecks_ALL
        c2 == IF c.md5 = 0 THEN BitAnd(c1, BitNot(FileChecks_MD5)) ELSE c1
        c3 == IF c.crc = 0 THEN BitAnd(c2, BitNot(FileChecks_CRC)) ELSE c2
    IN c3

(***************************************************************************)
(* DataReader: the provided method get_game_set over an implementor        *)
(***************************************************************************)
RomsetModes == {"Merged", "NonMerged", "Split"}

\* What an implementor's get_romset_roms returns: an error or a Vec of
\* DataFile.
RomsetResults ==
    { [ok |-> FALSE, error |-> <<[kind |-> "SqliteFailure", message |-> <<>>]>>,
       roms |-> <<>>],
      [ok |-> TRUE, error |-> <<>>, roms |-> <<MkFile("a.rom", "aa", NONE)>>],
      [ok |-> TRUE, error |-> <<>>,
       roms |-> <<MkFile("b.rom", "bb", NONE), MkFile("a.rom", "aa", NONE)>>] }

\* What an implementor's get_game returns for a name: None (<<>>) or Some
\* game of that name (<<game>>).
GameOptions(n) ==
    {<<>>} \cup {<<g>> : g \in {x \in Games : x.name = n /\ x.clone_of = NONE}}

\* The implementors of DataReader: get_game and get_romset_roms as
\* functions of their arguments, and the samples of the pack pacsnd.
Readers ==
    [get_game : {f \in [GameNames -> UNION {GameOptions(n) : n \in GameNames}] :
                    \A n \in GameNames : f[n] \in GameOptions(n)},
     get_romset_roms : [GameNames \X RomsetModes -> RomsetResults],
     samples : {{}, {"hit.wav"}}]

\* RomstError::GenericError { message: format!("Game {} not found", name) }
GameNotFound(game_name) ==
    [kind |-> "GenericError", message |-> <<"Game ", game_name, " not found">>]

\* GameSet::new(game, roms, vec![], vec![])
GameSet_new(game, roms, samples, disks) ==
    [game |-> game, roms |-> roms, samples |-> samples, disks |-> disks]

\* get_game_set that takes an error of get_romset_roms for no roms.
get_game_set_swallows(reader, game_name, rom_mode) ==
    LET game == reader.get_game[game_name]
    IN IF game = <<>>
       THEN [ok |-> FALSE, error |-> <<GameNotFound(game_name)>>, game_set |-> <<>>,
             calls |-> <<"get_game">>]
       ELSE LET roms == reader.get_romset_roms[<<game_name, rom_mode>>]
            IN [ok |-> TRUE, error |-> <<>>,
                game_set |-> <<GameSet_new(game[1], roms.roms, <<>>, <<>>)>>,
                calls |-> <<"get_game", "get_romset_roms">>]

\* DataReader::get_game_set (provided method). calls is the trait methods
\* it called, in order.
get_game_set(reader, game_name, rom_mode) ==
    LET game == reader.get_game[game_name]
    IN IF game = <<>>
       THEN [ok |-> FALSE, error |-> <<GameNotFound(game_name)>>, game_set |-> <<>>,
             calls |-> <<"get_game">>]
       ELSE LET roms == reader.get_romset_roms[<<game_name, rom_mode>>]
            IN IF ~roms.ok
               THEN [ok |-> FALSE, error |-> roms.error, game_set |-> <<>>,
                     calls |-> <<"get_game", "get_romset_roms">>]
               ELSE [ok |-> TRUE, error |-> <<>>,
                     game_set |-> <<GameSet_new(game[1], roms.roms, <<>>, <<>>)>>,
                     calls |-> <<"get_game", "get_romset_roms">>]

(***************************************************************************)
(* RomSearch                                                               *)
(***************************************************************************)
\* RomSearch::new
RomSearch_new == [set_results |-> EmptyMap, unknowns |-> <<>>]

\* HashSet<DataFile>::insert: a file equal to one of the set is not added.
HashSet_insert(set, file) ==
    IF \E x \in set : DataFileEq(x, file) THEN set ELSE set \cup {file}

\* add_file_for_set that inserts the file into a new set only.
add_file_for_set_new_sets_only(search, set_name, file) ==
    IF set_name \in DOMAIN search.set_results THEN search
    ELSE [search EXCEPT !.set_results = MapPut(search.set_results, set_name, {file})]

\* add_file_for_set that overwrites the entry of the set.
add_file_for_set_overwrites(search, set_name, file) ==
    [search EXCEPT !.set_results = MapPut(search.set_results, set_name, {file})]

\* RomSearch::add_file_for_set:
\* set_results.entry(set_name).or_insert(HashSet::new()).insert(file)
add_file_for_set(search, set_name, file) ==
    LET old == IF set_name \in DOMAIN search.set_results
               THEN search.set_results[set_name] ELSE {}
    IN [search EXCEPT !.set_results =
           MapPut(search.set_results, set_name, HashSet_insert(old, file))]

\* add_file_unknown that keeps one copy of a file.
add_file_unknown_once(search, file) ==
    IF \E i \in 1..Len(search.unknowns) : search.unknowns[i] = file THEN search
    ELSE [search EXCEPT !.unknowns = Append(search.unknowns, file)]

\* RomSearch::add_file_unknown: unknowns.push(file)
add_file_unknown(search, file) ==
    [search EXCEPT !.unknowns = Append(search.unknowns, file)]

(***************************************************************************)
(* DBReader: the reverse lookup over the store                             *)
(***************************************************************************)
\* DBReader::get_file_checks: the number of roms rows with a value in each
\* digest column.
count_file_checks(db) ==
    [sha1 |-> Cardinality({r \in db.roms : r.sha1 # NONE}),
     md5 |-> Cardinality({r \in db.roms : r.md5 # NONE}),
     crc |-> Cardinality({r \in db.roms : r.crc # NONE})]

\* A roms row answers an observed file under a mask: the columns of the
\* mask that the file declares are equal.
MaskedMatches(row, q, checks) ==
    /\ (Contains(checks, FileChecks_SHA1) /\ q.sha1 # NONE) => row.sha1 = q.sha1
    /\ (Contains(checks, FileChecks_MD5) /\ q.md5 # NONE) => row.md5 = q.md5
    /\ (Contains(checks, FileChecks_CRC) /\ q.crc # NONE) => row.crc = q.crc

\* The content id of an observed file: None (<<>>), or Some id (<<id>>),
\* the smallest of the ids that answer it.
resolve_id(db, q) ==
    LET checks == get_file_checks(count_file_checks(db))
        ids    == {row.id : row \in {r \in db.roms : MaskedMatches(r, q, checks)}}
    IN IF ids = {} THEN <<>> ELSE <<SetMin(ids)>>

\* The mode rule for a game_roms row: Split drops the rows with a parent.
ModeKeeps(row, rom_mode) == rom_mode = "Split" => row.parent = NONE

\* add_file_for_set(game_name, file with the local name) for every row.
RECURSIVE add_rows(_, _, _)
add_rows(search, rows, file) ==
    IF rows = {} THEN search
    ELSE LET r == CHOOSE x \in rows : TRUE
         IN add_rows(add_file_for_set(search, r.game_name, [file EXCEPT !.name = r.name]),
                     rows \ {r}, file)

\* One observed file of the reverse lookup: unknown when it has no content
\* id, else under every set whose row of that id the mode keeps.
lookup_file(search, db, file, rom_mode) ==
    LET id == resolve_id(db, file)
    IN IF id = <<>> THEN add_file_unknown(search, file)
       ELSE add_rows(search,
                     {r \in db.game_roms : r.rom_id = id[1] /\ ModeKeeps(r, rom_mode)},
                     file)

RECURSIVE get_romsets_from_roms_from(_, _, _, _)
get_romsets_from_roms_from(search, db, roms, rom_mode) ==
    IF roms = <<>> THEN search
    ELSE get_romsets_from_roms_from(lookup_file(search, db, Head(roms), rom_mode),
                                    db, Tail(roms), rom_mode)

\* DBReader::get_romsets_from_roms
get_romsets_from_roms(db, roms, rom_mode) ==
    get_romsets_from_roms_from(RomSearch_new, db, roms, rom_mode)

\* The DataFile of a roms row.
RowFile(row) ==
    [name |-> NONE, sha1 |-> row.sha1, md5 |-> row.md5, crc |-> row.crc,
     size |-> row.size, status |-> row.status]

RECURSIVE find_rom_usage_from(_, _, _, _)
find_rom_usage_from(search, db, ids, rom_mode) ==
    IF ids = {} THEN search
    ELSE LET id  == SetMin(ids)
             row == CHOOSE r \in db.roms : r.id = id
         IN find_rom_usage_from(
                add_rows(search,
                         {r \in db.game_roms : r.rom_id = id /\ ModeKeeps(r, rom_mode)},
                         RowFile(row)),
                db, ids \ {id}, rom_mode)

\* DBReader::find_rom_usage: the rom ids of the rows (game_name, rom_name),
\* then every set with a row of one of these ids that the mode keeps.
find_rom_usage(db, game_name, rom_name, rom_mode) ==
    find_rom_usage_from(RomSearch_new, db,
        {m.rom_id : m \in {r \in db.game_roms :
                              r.game_name = game_name /\ r.name = rom_name}},
        rom_mode)

(***************************************************************************)
(* State machine                                                           *)
(***************************************************************************)
\* db: the store; buffer, buffer_size: the fields of the DBWriter;
\* pc: where the caller of the writer is (constructed, ingest, finished);
\* inited: init was called in this session; result: what the last call
\* returned; nentries: on_new_entry calls so far; resolved: the (id, file)
\* pairs get_rom_ids produced in this session; last: the last call, its
\* arguments, the store and buffer before it and what its flush did.
VARIABLES db, buffer, buffer_size, pc, inited, result, nentries, resolved, last

\* seen: the entries passed to on_new_entry in this session, in order;
\* prev: the entries of the session that was interrupted before this one.
\* Both are kept by the specification of whole sessions only.
VARIABLES seen, prev

\* schema: the tables and indexes of the store file; schema_before: the
\* file before the last init; init_result: what the last init returned;
\* ninits: init calls so far. Kept by the specification of the schema only.
VARIABLES schema, schema_before, init_result, ninits

\* counts: the FileCheckSearch of the dataset; use_checks: the mask the
\* last get_file_checks returned; produced: the masks returned so far.
\* Kept by the specification of the mask only.
VARIABLES counts, use_checks, produced

\* reader: an implementor of DataReader; rcall: the last call of one of
\* its provided methods, with what it returned (<<>> before any call).
\* Kept by the specification of the provided methods only.
VARIABLES reader, rcall

\* search: a RomSearch; search_before: it before the last call; added: the
\* add_file_for_set and add_file_unknown calls so far, with their
\* arguments. Kept by the specification of RomSearch only.
VARIABLES search, search_before, added

\* games_len, samples_len: buffer.games.len() and buffer.samples.len() of a
\* writer whose buffer is followed by its lengths only; flushed: the last
\* on_new_entry ran write_buffer. Kept by the specification of the
\* threshold only.
VARIABLES games_len, samples_len, flushed

\* db_list, selected, option_selected: the fields of the DBWidget; key:
\* the last key event (<<>> before any); selected_before: selected before
\* it; nkeys: key events so far; panicked: a key event ended in a panic.
\* Kept by the specification of the widget only.
VARIABLES db_list, selected, option_selected, key, selected_before, nkeys, panicked

writer == <<db, buffer, buffer_size, pc, inited, result, nentries, resolved, last>>

masks == <<counts, use_checks, produced>>

readers == <<reader, rcall>>

searches == <<search, search_before, added>>

schemas == <<schema, schema_before, init_result, ninits>>

sessions == <<seen, prev>>

lengths == <<games_len, samples_len, flushed>>

widgets == <<db_list, selected, option_selected, key, selected_before, nkeys, panicked>>

\* What the specification of the writer's calls leaves alone.
beyond_writer ==
    <<sessions, schemas, masks, readers, searches, lengths, widgets>>

\* What the specification of whole sessions leaves alone.
beyond_sessions ==
    <<schemas, masks, readers, searches, lengths, widgets>>

\* What the specification of the schema leaves alone.
beyond_schema ==
    <<writer, sessions, masks, readers, searches, lengths, widgets>>

\* What the specification of the mask leaves alone.
beyond_masks ==
    <<writer, sessions, schemas, readers, searches, lengths, widgets>>

\* What the specification of the provided methods leaves alone.
beyond_readers ==
    <<writer, sessions, schemas, masks, searches, lengths, widgets>>

\* What the specification of RomSearch leaves alone.
beyond_searches ==
    <<writer, sessions, schemas, masks, readers, lengths, widgets>>

\* What the specification of the threshold leaves alone.
beyond_lengths == <<sessions, schemas, masks, readers, searches, widgets>>

\* What the specification of the widget leaves alone.
beyond_widgets == <<writer, sessions, schemas, masks, readers, searches, lengths>>

vars == <<writer, beyond_writer>>

NoSessions == seen = <<>> /\ prev = <<>>

NoSchema ==
    /\ schema = EmptyFile
    /\ schema_before = EmptyFile
    /\ init_result = "none"
    /\ ninits = 0

\* No get_file_checks call yet: use_checks holds no mask.
NoMasks ==
    /\ counts = [sha1 |-> 0, md5 |-> 0, crc |-> 0]
    /\ use_checks = <<>>
    /\ produced = {}

\* A reader that finds no game, and no call of it.
NoReaders ==
    /\ reader = [get_game |-> [n \in GameNames |-> <<>>],
                 get_romset_roms |->
                    [k \in GameNames \X RomsetModes |->
                        [ok |-> TRUE, error |-> <<>>, roms |-> <<>>]],
                 samples |-> {}]
    /\ rcall = <<>>

NoSearches ==
    /\ search = RomSearch_new
    /\ search_before = RomSearch_new
    /\ added = <<>>

NoLengths ==
    /\ games_len = 0
    /\ samples_len = 0
    /\ flushed = FALSE

\* No widget: an empty list, nothing selected, no key event.
NoWidgets ==
    /\ db_list = <<>>
    /\ selected = <<>>
    /\ option_selected = "Import"
    /\ key = <<>>
    /\ selected_before = <<>>
    /\ nkeys = 0
    /\ panicked = FALSE

Call(op, entry, fault, due, batch, skipped) ==
    [op |-> op, entry |-> entry, fault |-> fault, due |-> due, batch |-> batch,
     skipped |-> skipped, pre |-> db, prebuf |-> buffer]

\* A call that runs no flush: construction and init.
Plain(op, d, b) ==
    [op |-> op, entry |-> <<>>, fault |-> NoFault, due |-> FALSE, batch |-> <<>>,
     skipped |-> {}, pre |-> d, prebuf |-> b]

\* DBWriter::from_connection over an initialised, empty store.
Init ==
    /\ db = EmptyDb
    /\ buffer = Buffer_new
    /\ buffer_size \in BufferSizes
    /\ pc = "constructed"
    /\ inited = FALSE
    /\ result = "none"
    /\ nentries = 0
    /\ resolved = {}
    /\ last = Plain("from_connection", EmptyDb, Buffer_new)
    /\ NoSessions
    /\ NoSchema
    /\ NoMasks
    /\ NoReaders
    /\ NoSearches
    /\ NoLengths
    /\ NoWidgets

\* The writer is dropped, after an entry or after finish, and a new one is
\* constructed over the store as it is, with the configured buffer_size.
FromConnection ==
    /\ last.op \in {"on_new_entry", "finish"}
    /\ buffer' = Buffer_new
    /\ buffer_size' = buffer_size
    /\ pc' = "constructed"
    /\ inited' = FALSE
    /\ result' = "none"
    /\ resolved' = {}
    /\ last' = Plain("from_connection", db, Buffer_new)
    /\ UNCHANGED <<db, nentries, beyond_writer>>

\* init(), the first call of a session.
DoInit ==
    /\ pc = "constructed"
    /\ db' = init(db)
    /\ pc' = "ingest"
    /\ inited' = TRUE
    /\ result' = "ok"
    /\ last' = Plain("init", EmptyDb, buffer)
    /\ UNCHANGED <<buffer, buffer_size, nentries, resolved, beyond_writer>>

\* on_new_entry(game, roms, disks, samples, device_refs); no call follows
\* one that returned an error.
OnNewEntry ==
    /\ pc \in {"constructed", "ingest"}
    /\ result # "err"
    /\ nentries < MaxEntries
    /\ \E e \in Entries :
         \E fault \in Faults(Buffer_add_game(buffer, e.game.name, e.game)) :
           LET r == on_new_entry(buffer, db, buffer_size, e.game, e.roms, e.samples, fault)
           IN /\ (fault # NoFault => r.due)
              /\ buffer' = r.buffer
              /\ db' = r.db
              /\ result' = IF r.ok THEN "ok" ELSE "err"
              /\ resolved' = resolved \cup r.resolved
              /\ last' = Call("on_new_entry", <<e>>, fault, r.due, r.batch, r.skipped)
    /\ pc' = "ingest"
    /\ nentries' = nentries + 1
    /\ UNCHANGED <<buffer_size, inited, beyond_writer>>

\* finish()
Finish ==
    /\ pc \in {"constructed", "ingest"}
    /\ result # "err"
    /\ \E fault \in Faults(buffer) \cup {[kind |-> "backfill", row |-> <<>>]} :
         LET r == finish(buffer, db, fault)
         IN /\ buffer' = r.buffer
            /\ db' = r.db
            /\ result' = IF r.ok THEN "ok" ELSE "err"
            /\ last' = Call("finish", <<>>, fault, TRUE, <<buffer>>, r.skipped)
    /\ pc' = "finished"
    /\ UNCHANGED <<buffer_size, inited, nentries, resolved, beyond_writer>>

Next == FromConnection \/ DoInit \/ OnNewEntry \/ Finish

Spec == Init /\ [][Next]_vars

(***************************************************************************)
(* Whole sessions: init, the entries of a DAT, finish. A session that is   *)
(* interrupted is followed by one that reads the same DAT from its start.  *)
(***************************************************************************)
\* The entries of the DAT of a session: the games of no sample pack.
SessionEntries == {e \in Entries : e.game.sample_of = NONE}

\* on_new_entry(game, roms, disks, samples, device_refs) of a session that
\* began with init, over a storage that does not fail. After an
\* interruption the entries of the interrupted session come first again.
SessionEntry ==
    /\ pc = "ingest"
    /\ inited
    /\ result # "err"
    /\ Len(seen) < MaxEntries
    /\ \E e \in SessionEntries :
         /\ Len(seen) < Len(prev) => e = prev[Len(seen) + 1]
         /\ LET r == on_new_entry(buffer, db, buffer_size, e.game, e.roms, e.samples,
                                  NoFault)
            IN /\ buffer' = r.buffer
               /\ db' = r.db
               /\ result' = IF r.ok THEN "ok" ELSE "err"
               /\ resolved' = resolved \cup r.resolved
               /\ last' = Call("on_new_entry", <<e>>, NoFault, r.due, r.batch, r.skipped)
               /\ seen' = Append(seen, e)
    /\ nentries' = nentries + 1
    /\ UNCHANGED <<buffer_size, pc, inited, prev, beyond_sessions>>

\* finish() of a session that began with init.
SessionFinish ==
    /\ pc = "ingest"
    /\ inited
    /\ result # "err"
    /\ \E fault \in Faults(buffer) \cup {[kind |-> "backfill", row |-> <<>>]} :
         LET r == finish(buffer, db, fault)
         IN /\ buffer' = r.buffer
            /\ db' = r.db
            /\ result' = IF r.ok THEN "ok" ELSE "err"
            /\ last' = Call("finish", <<>>, fault, TRUE, <<buffer>>, r.skipped)
    /\ pc' = "finished"
    /\ UNCHANGED <<buffer_size, inited, nentries, resolved, sessions, beyond_sessions>>

\* The session ends before finish: the writer and its buffer are gone, the
\* store keeps what was committed. A new writer is constructed over it,
\* with a buffer_size of its own.
Interrupt ==
    /\ pc = "ingest"
    /\ seen # <<>>
    /\ prev = <<>>
    /\ buffer' = Buffer_new
    /\ buffer_size' \in BufferSizes
    /\ pc' = "constructed"
    /\ inited' = FALSE
    /\ result' = "none"
    /\ resolved' = {}
    /\ last' = Plain("from_connection", db, Buffer_new)
    /\ prev' = seen
    /\ seen' = <<>>
    /\ UNCHANGED <<db, nentries, beyond_sessions>>

SessionNext == DoInit \/ SessionEntry \/ SessionFinish \/ Interrupt

SpecSessions == Init /\ [][SessionNext]_vars

(***************************************************************************)
(* init over the files it can meet                                         *)
(***************************************************************************)
MaxInits == 2

\* A writer that is constructed and not used for entries.
WriterUnused ==
    /\ db = EmptyDb
    /\ buffer = Buffer_new
    /\ buffer_size = 1
    /\ pc = "constructed"
    /\ inited = FALSE
    /\ result = "none"
    /\ nentries = 0
    /\ resolved = {}
    /\ last = Plain("from_connection", EmptyDb, Buffer_new)

SchemaInit ==
    /\ WriterUnused
    /\ NoSessions
    /\ NoMasks
    /\ NoReaders
    /\ NoSearches
    /\ NoLengths
    /\ NoWidgets
    /\ schema \in Files
    /\ schema_before = schema
    /\ init_result = "none"
    /\ ninits = 0

\* init(): create_schema over the file as it is.
InitSchema ==
    /\ ninits < MaxInits
    /\ LET r == create_schema(schema)
       IN /\ schema' = r.store
          /\ init_result' = IF r.ok THEN "ok" ELSE "err"
    /\ schema_before' = schema
    /\ ninits' = ninits + 1
    /\ UNCHANGED beyond_schema

SchemaNext == InitSchema

SpecSchema == SchemaInit /\ [][SchemaNext]_vars

(***************************************************************************)
(* get_file_checks over the counts of a dataset                            *)
(***************************************************************************)
MaxCount == 2

\* FileCheckSearch { sha1, md5, crc }: the counts of the rows of the roms
\* table with a non-empty value in each column.
FileCheckSearches == [sha1 : 0..MaxCount, md5 : 0..MaxCount, crc : 0..MaxCount]

MaskInit ==
    /\ WriterUnused
    /\ NoSessions
    /\ NoSchema
    /\ NoReaders
    /\ NoSearches
    /\ NoLengths
    /\ NoWidgets
    /\ counts \in FileCheckSearches
    /\ use_checks = <<>>
    /\ produced = {}

\* A reader over another dataset.
NewCounts ==
    /\ use_checks # <<>>
    /\ counts' \in FileCheckSearches
    /\ use_checks' = <<>>
    /\ UNCHANGED <<produced, beyond_masks>>

\* file_check_search.get_file_checks()
GetFileChecks ==
    /\ use_checks = <<>>
    /\ use_checks' = <<get_file_checks(counts)>>
    /\ produced' = produced \cup {get_file_checks(counts)}
    /\ UNCHANGED <<counts, beyond_masks>>

MaskNext == NewCounts \/ GetFileChecks

SpecMask == MaskInit /\ [][MaskNext]_vars

(***************************************************************************)
(* get_game_set over the implementors of DataReader                        *)
(***************************************************************************)
GameSetInit ==
    /\ WriterUnused
    /\ NoSessions
    /\ NoSchema
    /\ NoMasks
    /\ NoSearches
    /\ NoLengths
    /\ NoWidgets
    /\ reader \in Readers
    /\ rcall = <<>>

\* reader.get_game_set(game_name, rom_mode)
GetGameSet ==
    /\ \E game_name \in GameNames, rom_mode \in RomsetModes :
         rcall' = <<[op |-> "get_game_set", game_name |-> game_name,
                     rom_mode |-> rom_mode,
                     result |-> get_game_set(reader, game_name, rom_mode)]>>
    /\ UNCHANGED <<reader, beyond_readers>>

GameSetNext == GetGameSet

SpecGameSet == GameSetInit /\ [][GameSetNext]_vars

(***************************************************************************)
(* RomSearch under add_file_for_set and add_file_unknown                   *)
(***************************************************************************)
MaxAdds == 3

\* The files added: two names of one content, and a.rom once more with a
\* status, equal to a.rom as a DataFile.
SearchFiles ==
    { MkFile("a.rom", "aa", NONE), MkFile("b.rom", "aa", NONE),
      [MkFile("a.rom", "aa", NONE) EXCEPT !.status = "baddump"] }

SearchInit ==
    /\ WriterUnused
    /\ NoSessions
    /\ NoSchema
    /\ NoMasks
    /\ NoReaders
    /\ NoSearches
    /\ NoLengths
    /\ NoWidgets

\* search.add_file_for_set(set_name, file)
AddFileForSet ==
    /\ Len(added) < MaxAdds
    /\ \E set_name \in GameNames, file \in SearchFiles :
         /\ search' = add_file_for_set(search, set_name, file)
         /\ added' = Append(added, [op |-> "add_file_for_set",
                                    set_name |-> set_name, file |-> file])
    /\ search_before' = search
    /\ UNCHANGED beyond_searches

\* search.add_file_unknown(file)
AddFileUnknown ==
    /\ Len(added) < MaxAdds
    /\ \E file \in SearchFiles :
         /\ search' = add_file_unknown(search, file)
         /\ added' = Append(added, [op |-> "add_file_unknown",
                                    set_name |-> NONE, file |-> file])
    /\ search_before' = search
    /\ UNCHANGED beyond_searches

SearchNext == AddFileForSet \/ AddFileUnknown

SpecSearch == SearchInit /\ [][SearchNext]_vars

(***************************************************************************)
(* The reverse lookup over the store of a finished session                 *)
(***************************************************************************)
\* The entries of a session from the first to the last, over a storage
\* that does not fail.
RECURSIVE IngestFrom(_, _, _, _)
IngestFrom(b, d, size, entries) ==
    IF entries = <<>> THEN [buffer |-> b, db |-> d]
    ELSE LET e == Head(entries)
             r == on_new_entry(b, d, size, e.game, e.roms, e.samples, NoFault)
         IN IngestFrom(r.buffer, r.db, size, Tail(entries))

\* The store after one whole session: init, the entries, finish.
Uninterrupted(entries, size) ==
    LET i == IngestFrom(Buffer_new, init(EmptyDb), size, entries)
    IN finish(i.buffer, i.db, NoFault).db

\* The DATs of up to MaxEntries entries.
Dats == UNION {[1..n -> SessionEntries] : n \in 1..MaxEntries}

\* Files observed on disk: the content aa without and with its md5, and a
\* content no DAT has.
Observed ==
    { <<MkFile("x.bin", "zz", NONE)>>,
      <<MkFile("x.bin", "zz", NONE), MkFile("y.bin", "aa", NONE),
        MkFile("x.bin", "zz", NONE)>>,
      <<MkFile("y.bin", "aa", "m1"), MkFile("z.bin", "zz", "m1")>>,
      <<MkFile("y.bin", "bb", NONE), MkFile("y.bin", "aa", NONE)>> }

LookupInit ==
    /\ seen \in Dats
    /\ buffer_size \in BufferSizes
    /\ db = Uninterrupted(seen, buffer_size)
    /\ buffer = Buffer_new
    /\ pc = "finished"
    /\ inited = TRUE
    /\ result = "ok"
    /\ nentries = Len(seen)
    /\ resolved = {}
    /\ last = Plain("finish", EmptyDb, Buffer_new)
    /\ prev = <<>>
    /\ NoSchema
    /\ NoMasks
    /\ NoReaders
    /\ NoSearches
    /\ NoLengths
    /\ NoWidgets

\* reader.find_rom_usage(game_name, rom_name, rom_mode); the methods take
\* &self and leave the reader as it was, so one call is followed per store.
FindRomUsage ==
    /\ rcall = <<>>
    /\ \E game_name \in GameNames, rom_name \in {"a.rom", "b.rom"},
          rom_mode \in RomsetModes :
         rcall' = <<[op |-> "find_rom_usage", game_name |-> game_name,
                     rom_name |-> rom_name, roms |-> <<>>, rom_mode |-> rom_mode,
                     result |-> find_rom_usage(db, game_name, rom_name, rom_mode)]>>
    /\ UNCHANGED <<reader, beyond_readers>>

\* reader.get_romsets_from_roms(roms, rom_mode)
GetRomsetsFromRoms ==
    /\ rcall = <<>>
    /\ \E roms \in Observed, rom_mode \in RomsetModes :
         rcall' = <<[op |-> "get_romsets_from_roms", game_name |-> NONE,
                     rom_name |-> NONE, roms |-> roms, rom_mode |-> rom_mode,
                     result |-> get_romsets_from_roms(db, roms, rom_mode)]>>
    /\ UNCHANGED <<reader, beyond_readers>>

LookupNext == FindRomUsage \/ GetRomsetsFromRoms

SpecLookup == LookupInit /\ [][LookupNext]_vars

(***************************************************************************)
(* The membership list of an entry: roms listed more than once, roms of    *)
(* the store and roms of the buffer in one entry.                          *)
(***************************************************************************)
\* The roms of an entry: a.rom/aa once, twice, after another content,
\* between two listings of another content, and beside its second name.
MemberRomLists ==
    { <<MkFile("a.rom", "aa", NONE)>>,
      <<MkFile("a.rom", "aa", NONE), MkFile("a.rom", "aa", NONE)>>,
      <<MkFile("b.rom", "bb", NONE), MkFile("a.rom", "aa", NONE)>>,
      <<MkFile("b.rom", "bb", NONE), MkFile("a.rom", "aa", NONE),
        MkFile("b.rom", "bb", NONE)>>,
      <<MkFile("b.rom", "aa", NONE), MkFile("a.rom", "aa", NONE),
        MkFile("b.rom", "aa", NONE)>> }

\* Entries of games of no parent and no sample pack.
MemberEntries ==
    [game : {g \in Games : g.clone_of = NONE /\ g.sample_of = NONE},
     roms : MemberRomLists, samples : {<<>>}]

\* on_new_entry(game, roms, disks, samples, device_refs) of a session that
\* began with init, over a storage that does not fail.
MemberEntry ==
    /\ pc = "ingest"
    /\ inited
    /\ result # "err"
    /\ Len(seen) < MaxEntries
    /\ \E e \in MemberEntries :
         LET r == on_new_entry(buffer, db, buffer_size, e.game, e.roms, e.samples,
                               NoFault)
         IN /\ buffer' = r.buffer
            /\ db' = r.db
            /\ result' = IF r.ok THEN "ok" ELSE "err"
            /\ resolved' = resolved \cup r.resolved
            /\ last' = Call("on_new_entry", <<e>>, NoFault, r.due, r.batch, r.skipped)
            /\ seen' = Append(seen, e)
    /\ nentries' = nentries + 1
    /\ UNCHANGED <<buffer_size, pc, inited, prev, beyond_sessions>>

MemberNext == DoInit \/ MemberEntry \/ SessionFinish

SpecMembers == Init /\ [][MemberNext]_vars

(***************************************************************************)
(* Sample packs: entries of one pack and of several, with samples in       *)
(* common, in sessions from init to finish.                                *)
(***************************************************************************)
SamplePacks == {"pacsnd", "galsnd"}

\* Vec<String> of sample names: none, one, two, one name twice.
PackSampleLists ==
    {<<>>, <<"hit.wav">>, <<"hit.wav", "die.wav">>, <<"die.wav", "die.wav">>}

\* Entries of one rom whose game is of no pack or of one of two, with any
\* of the sample lists.
PackEntries ==
    [game : [name : GameNames, clone_of : {NONE}, sample_of : {NONE} \cup SamplePacks],
     roms : {<<MkFile("a.rom", "aa", NONE)>>}, samples : PackSampleLists]

\* on_new_entry(game, roms, disks, samples, device_refs) of a session that
\* began with init, over a storage that does not fail.
PackEntry ==
    /\ pc = "ingest"
    /\ inited
    /\ result # "err"
    /\ Len(seen) < MaxEntries
    /\ \E e \in PackEntries :
         LET r == on_new_entry(buffer, db, buffer_size, e.game, e.roms, e.samples,
                               NoFault)
         IN /\ buffer' = r.buffer
            /\ db' = r.db
            /\ result' = IF r.ok THEN "ok" ELSE "err"
            /\ resolved' = resolved \cup r.resolved
            /\ last' = Call("on_new_entry", <<e>>, NoFault, r.due, r.batch, r.skipped)
            /\ seen' = Append(seen, e)
    /\ nentries' = nentries + 1
    /\ UNCHANGED <<buffer_size, pc, inited, prev, beyond_sessions>>

PackNext == DoInit \/ PackEntry \/ SessionFinish

SpecPacks == Init /\ [][PackNext]_vars

(***************************************************************************)
(* The flush threshold over the range of u16. The buffer is followed by    *)
(* the lengths of its games and samples maps, which is all that add_game   *)
(* compares; the storage does not fail.                                    *)
(***************************************************************************)
\* buffer_size values at both ends of u16.
Thresholds == {1, 2, U16 - 2, U16 - 1}

\* How far from 0 and from buffer_size the buffered games of the first
\* state are.
Window == 3

\* The lengths a writer of this buffer_size has after some entries: g
\* entries of new games and no pack leave g games for every g below
\* buffer_size, and a pack of the last of them leaves one sample set.
StartLengths(size) ==
    {l \in [games_len : 0..(size - 1), samples_len : {0, 1}] :
        l.games_len < Window \/ l.games_len >= size - Window}

\* Buffer::len over the lengths.
Lengths_len(l) == l.games_len + l.samples_len

\* DBWriter::add_game over the lengths: the map grows by a game of a new
\* name; write_buffer clears both maps.
Lengths_add_game(l, size, new_name) ==
    LET l1 == [l EXCEPT !.games_len = IF new_name THEN @ + 1 ELSE @]
    IN IF AsU16(Lengths_len(l1)) >= size
       THEN [games_len |-> 0, samples_len |-> 0, flushed |-> TRUE]
       ELSE [games_len |-> l1.games_len, samples_len |-> l1.samples_len,
             flushed |-> FALSE]

\* Buffer::add_sample_pack over the lengths: the map grows by a pack of a
\* new name.
Lengths_add_sample_pack(l, new_pack) ==
    [l EXCEPT !.samples_len = IF new_pack THEN @ + 1 ELSE @]

\* DBWriter::on_new_entry over the lengths. The game has a name that is
\* buffered or not; pack says whether it has a sample_of, and whether that
\* pack is buffered.
Lengths_on_new_entry(l, size, new_name, pack) ==
    LET g == Lengths_add_game(l, size, new_name)
    IN IF pack = "none" THEN g ELSE Lengths_add_sample_pack(g, pack = "new")

ThresholdInit ==
    /\ db = EmptyDb
    /\ buffer = Buffer_new
    /\ buffer_size \in Thresholds
    /\ pc = "ingest"
    /\ inited = TRUE
    /\ result = "ok"
    /\ nentries = 0
    /\ resolved = {}
    /\ last = Plain("init", EmptyDb, Buffer_new)
    /\ \E l \in StartLengths(buffer_size) :
          /\ games_len = l.games_len
          /\ samples_len = l.samples_len
    /\ flushed = FALSE
    /\ NoSessions
    /\ NoSchema
    /\ NoMasks
    /\ NoReaders
    /\ NoSearches
    /\ NoWidgets

\* on_new_entry(game, roms, disks, samples, device_refs): a name that is
\* buffered needs a buffered game; a pack that is buffered needs a
\* buffered pack that the flush of this call did not clear.
ThresholdEntry ==
    /\ nentries < MaxEntries
    /\ \E new_name \in BOOLEAN, pack \in {"none", "new", "buffered"} :
         LET l == [games_len |-> games_len, samples_len |-> samples_len]
             g == Lengths_add_game(l, buffer_size, new_name)
             r == Lengths_on_new_entry(l, buffer_size, new_name, pack)
         IN /\ ~new_name => games_len > 0
            /\ pack = "buffered" => g.samples_len > 0
            /\ games_len' = r.games_len
            /\ samples_len' = r.samples_len
            /\ flushed' = g.flushed
    /\ nentries' = nentries + 1
    /\ UNCHANGED <<db, buffer, buffer_size, pc, inited, result, resolved, last,
                   beyond_lengths>>

ThresholdNext == ThresholdEntry

SpecThreshold == ThresholdInit /\ [][ThresholdNext]_vars

(***************************************************************************)
(* DBWidget (src/bin/ui/db_widget.rs): the list of db files and its        *)
(* selection under key events.                                             *)
(***************************************************************************)
\* Files of the db directory.
MaxFiles == 2

\* Key events of one behaviour.
MaxKeys == 4

\* usize::MAX. The code compares it with the selection and subtracts 1
\* from it and nothing else, so the model holds it as the largest integer
\* of the checker, above every list length, whatever the width of usize.
USIZE_MAX == 2147483647

\* a - b of usize without overflow checks: wraps below 0.
WrappingSub(a, b) == IF a >= b THEN a - b ELSE USIZE_MAX - (b - a - 1)

DBListEntry_Import == [kind |-> "Import", file |-> 0]

DBListEntry_File(i) == [kind |-> "File", file |-> i]

\* What listing the db directory gives: an error, or its files.
Listings ==
    {[ok |-> FALSE, files |-> <<>>]}
      \cup {[ok |-> TRUE, files |-> [i \in 1..k |-> DBListEntry_File(i)]]
              : k \in 0..MaxFiles}

\* DBWidget::get_db_list: the files with the import entry in front, or the
\* error of the listing.
get_db_list(listing) ==
    IF listing.ok
    THEN [ok |-> TRUE, list |-> <<DBListEntry_Import>> \o listing.files]
    ELSE [ok |-> FALSE, list |-> <<>>]

\* DBWidget::new: unwrap_or_else(|_e| vec![]), select(Some(0)).
DBWidget_new(listing) ==
    LET l == get_db_list(listing)
    IN [db_list |-> IF l.ok THEN l.list ELSE <<>>,
        selected |-> <<0>>,
        option_selected |-> "Import"]

\* Vec::get of a 0-based index: <<>> is None.
VecGet(v, i) == IF i < Len(v) THEN <<v[i + 1]>> ELSE <<>>

\* DBWidget::update_selected; info_ok is whether Romst::get_db_info reads
\* the file of the entry.
update_selected(w, info_ok) ==
    IF w.selected = <<>> THEN w
    ELSE LET db_entry == VecGet(w.db_list, w.selected[1])
         IN [w EXCEPT !.option_selected =
                IF db_entry = <<>> THEN "Err"
                ELSE IF db_entry[1].kind = "Import" THEN "Import"
                ELSE IF info_ok THEN "DbInfo" ELSE "Err"]

KeyCodes == {"Down", "Up", "Enter", "Char"}

\* process_key. overflow_checks is the build: with them `entries - 1` of
\* an empty list panics, without them it wraps.
process_key(w, code, info_ok, overflow_checks) ==
    LET entries  == Len(w.db_list)
        underflow == entries = 0 /\ overflow_checks
        last_one == WrappingSub(entries, 1)
        stay     == [widget |-> w, panicked |-> FALSE]
        panic    == [widget |-> w, panicked |-> TRUE]
        to(n)    == [widget |-> update_selected([w EXCEPT !.selected = <<n>>], info_ok),
                     panicked |-> FALSE]
    IN IF w.selected = <<>> THEN stay
       ELSE IF code = "Down"
       THEN IF underflow THEN panic
            ELSE IF w.selected[1] >= last_one THEN to(0)
            ELSE to(w.selected[1] + 1)
       ELSE IF code = "Up"
       THEN IF w.selected[1] > 0 THEN to(w.selected[1] - 1)
            ELSE IF underflow THEN panic
            ELSE to(last_one)
       ELSE stay

WidgetInit ==
    /\ \E listing \in Listings :
          LET w == DBWidget_new(listing)
          IN /\ db_list = w.db_list
             /\ selected = w.selected
             /\ option_selected = w.option_selected
    /\ key = <<>>
    /\ selected_before = <<>>
    /\ nkeys = 0
    /\ panicked = FALSE
    /\ WriterUnused
    /\ NoSessions
    /\ NoSchema
    /\ NoMasks
    /\ NoReaders
    /\ NoSearches
    /\ NoLengths

\* widget.process_key(event); no event reaches a widget that panicked.
ProcessKey ==
    /\ nkeys < MaxKeys
    /\ ~panicked
    /\ \E code \in KeyCodes, info_ok \in BOOLEAN, overflow_checks \in BOOLEAN :
         LET w == [db_list |-> db_list, selected |-> selected,
                   option_selected |-> option_selected]
             r == process_key(w, code, info_ok, overflow_checks)
         IN /\ selected' = r.widget.selected
            /\ option_selected' = r.widget.option_selected
            /\ panicked' = r.panicked
            /\ key' = <<code>>
    /\ selected_before' = selected
    /\ nkeys' = nkeys + 1
    /\ UNCHANGED <<db_list, beyond_widgets>>

WidgetNext == ProcessKey

SpecWidget == WidgetInit /\ [][WidgetNext]_vars

(***************************************************************************)
(* Properties                                                              *)
(***************************************************************************)
Digests(f) == <<f.sha1, f.md5, f.crc>>

\* Same digest tuple and size.
SameContent(f, g) == Digests(f) = Digests(g) /\ f.size = g.size

\* Some digest that both files declare has different values.
DeclaredDigestsDiffer(f, g) ==
    \/ f.sha1 # NONE /\ g.sha1 # NONE /\ f.sha1 # g.sha1
    \/ f.md5 # NONE /\ g.md5 # NONE /\ f.md5 # g.md5
    \/ f.crc # NONE /\ g.crc # NONE /\ f.crc # g.crc

RomIds(d) == {r.id : r \in d.roms}

GameNamesOf(d) == {g.name : g \in d.games}

FinishedOk == pc = "finished" /\ result = "ok"

\* C1: in a session that began with init, two files of the same digest
\* tuple and size resolve to the same rom id, and after finish the roms
\* table has one row per digest tuple.
C1_DedupSoundness ==
    inited =>
      /\ \A p, q \in resolved : SameContent(p.file, q.file) => p.id = q.id
      /\ FinishedOk =>
           \A r, t \in db.roms :
              (Digests(r) = Digests(t) /\ r.size = t.size) => r.id = t.id

BufferedRomIds(b) == {e.id : e \in b.roms}

\* The last call was one that can write the store.
Wrote == last.op \in {"on_new_entry", "finish"}

\* C3: in a session that began with init the ids of the committed and the
\* buffered roms are exactly 0 .. counter-1, after finish the ids of the
\* roms table are 0 .. count-1; no call lowers the counter, an id first
\* handed out by a call is not below the counter before the call, and no
\* call changes or removes a committed roms row.
C3_IdAllocation ==
    /\ inited => RomIds(db) \cup BufferedRomIds(buffer) = 0..(buffer.ids.rom - 1)
    /\ (inited /\ FinishedOk) => RomIds(db) = 0..(Cardinality(db.roms) - 1)
    /\ Wrote =>
         /\ buffer.ids.rom >= last.prebuf.ids.rom
         /\ last.pre.roms \subseteq db.roms
         /\ \A i \in (RomIds(db) \cup BufferedRomIds(buffer))
                       \ (RomIds(last.pre) \cup BufferedRomIds(last.prebuf)) :
               i >= last.prebuf.ids.rom

\* An entry flushed a batch with roms and then got a new id for one of
\* its own roms.
C3_Witness ==
    /\ inited
    /\ last.op = "on_new_entry" /\ last.due /\ result = "ok"
    /\ last.prebuf.roms # {}
    /\ buffer.ids.rom > last.prebuf.ids.rom
    /\ RomIds(db) # {}

\* C4: a writer constructed over a store with rom rows starts its counter
\* at the largest committed id plus one, and a flush that meets no storage
\* failure succeeds.
C4_CounterSeededFromStore ==
    /\ (last.op = "from_connection" /\ db.roms # {}) =>
          buffer.ids.rom = SetMax(RomIds(db)) + 1
    /\ (Wrote /\ last.due /\ last.fault = NoFault) => result = "ok"

MemberKeys(d) == {MemberKey(r) : r \in d.game_roms}

\* The rows of buffer b are in the store, but for those whose insert
\* failed: the games of a name the store d0 held, the game_roms of a key d0
\* held, and the samples row of the failure.
BatchVisible(b, d0) ==
    /\ \A g \in (DOMAIN b.games) \ GameNamesOf(d0) : GameRow(b.games[g]) \in db.games
    /\ \A e \in b.roms : RomRow(e) \in db.roms
    /\ \A m \in MemberRows(b) : MemberKey(m) \in MemberKeys(db)
    /\ \A x \in SampleRows(b) :
          \/ x \in db.samples
          \/ last.fault.kind = "sample" /\ last.fault.row = <<x.sample_set, x.sample>>

\* C5: on_new_entry with games.len() + samples.len() (the game of the
\* entry counted) at or above buffer_size writes every buffered row in
\* one transaction and leaves in the buffer only what the entry itself
\* adds after the flush; below buffer_size the store is not written.
C5_FlushPolicy ==
    last.op = "on_new_entry" =>
      LET e    == last.entry[1]
          b0   == [last.prebuf EXCEPT
                      !.games = MapPut(last.prebuf.games, e.game.name, e.game)]
          size == Cardinality(DOMAIN b0.games) + Cardinality(DOMAIN b0.samples)
      IN /\ (size >= buffer_size /\ result = "ok") =>
              /\ BatchVisible(b0, last.pre)
              /\ DOMAIN buffer.games = {}
              /\ DOMAIN buffer.game_roms = {e.game.name}
              /\ DOMAIN buffer.samples \subseteq {e.game.sample_of}
              /\ \A x \in buffer.roms : x.id >= b0.ids.rom
         /\ (size >= buffer_size /\ result = "err") => db = last.pre
         /\ size < buffer_size => (db = last.pre /\ result = "ok")

\* An entry flushed a batch with games, roms, game_roms and samples.
C5_Witness ==
    /\ last.op = "on_new_entry" /\ last.due /\ result = "ok"
    /\ last.prebuf.roms # {}
    /\ DOMAIN last.prebuf.games # {}
    /\ DOMAIN last.prebuf.game_roms # {}
    /\ DOMAIN last.prebuf.samples # {}
    /\ db.samples # {}

\* The flush of the last call failed: the storage failure of a roms insert
\* or of the commit, or a buffered rom id that the roms table held.
FlushFailed ==
    /\ Wrote /\ last.due
    /\ \/ last.fault.kind \in {"rom", "commit"}
       \/ \E e \in last.batch[1].roms : e.id \in RomIds(last.pre)

\* C6: a failed flush leaves the store as it was before the call (no row
\* of the batch, no parent link of finish) and the call returns an error;
\* a flush that does not fail makes the rows of the batch visible.
C6_FlushAtomic ==
    /\ FlushFailed => (result = "err" /\ db = last.pre)
    /\ (Wrote /\ last.due /\ ~FlushFailed) => BatchVisible(last.batch[1], last.pre)

\* finish failed in its flush of a batch with games, roms and game_roms,
\* over a store where the back-fill has links to write.
C6_Witness ==
    /\ FlushFailed /\ last.op = "finish"
    /\ last.batch[1].roms # {}
    /\ DOMAIN last.batch[1].games # {}
    /\ DOMAIN last.batch[1].game_roms # {}

\* A games, game_roms or samples insert of the last flush failed.
RowFailed ==
    /\ Wrote /\ last.due
    /\ \/ (DOMAIN last.batch[1].games) \cap GameNamesOf(last.pre) # {}
       \/ \E m \in MemberRows(last.batch[1]) : MemberKey(m) \in MemberKeys(last.pre)
       \/ last.fault.kind = "sample"

\* C7: a flush with a failing games, game_roms or samples insert, no
\* failing roms insert and a commit that succeeds returns success with
\* every other row committed; a failing roms insert returns an error.
C7_RowFailuresLogged ==
    /\ (RowFailed /\ ~FlushFailed /\ last.fault.kind # "backfill") =>
          (result = "ok" /\ BatchVisible(last.batch[1], last.pre))
    /\ (FlushFailed /\ last.fault.kind # "commit") => result = "err"

\* A flush skipped a games row of a committed name and committed the roms
\* of the batch.
C7_Witness ==
    /\ RowFailed /\ result = "ok"
    /\ (DOMAIN last.batch[1].games) \cap GameNamesOf(last.pre) # {}
    /\ last.batch[1].roms # {}
    /\ \A e \in last.batch[1].roms : RomRow(e) \in db.roms

\* C8: an entry whose game name is buffered or committed already makes
\* on_new_entry return an error, and the buffered record and membership
\* list of that name stay those of the first entry.
C8_DuplicateGameRejected ==
    (last.op = "on_new_entry" /\ inited) =>
      LET n == last.entry[1].game.name
      IN (n \in (DOMAIN last.prebuf.games) \cup GameNamesOf(last.pre)) =>
           /\ result = "err"
           /\ (n \in DOMAIN last.prebuf.games /\ n \in DOMAIN buffer.games) =>
                 buffer.games[n] = last.prebuf.games[n]
           /\ (n \in DOMAIN last.prebuf.game_roms /\ n \in DOMAIN buffer.game_roms) =>
                 buffer.game_roms[n] = last.prebuf.game_roms[n]

\* C9: after a successful finish a game_roms row of game C has parent P
\* exactly when the games row of C has clone_of = P and game_roms has a row
\* of P with the same rom_id; every other row has a null parent.
C9_ParentBackfill ==
    FinishedOk =>
      \A r \in db.game_roms :
         /\ r.parent \in GameNames \cup {NONE}
         /\ \A P \in GameNames :
               r.parent = P <=>
                 /\ \E g \in db.games : g.name = r.game_name /\ g.clone_of = P
                 /\ \E q \in db.game_roms : q.game_name = P /\ q.rom_id = r.rom_id

\* After finish a clone has two rows of one rom_id under two names, both
\* linked to the parent, and a row of another rom_id that is not.
C9_Witness ==
    /\ FinishedOk
    /\ \E r, q \in db.game_roms :
         /\ r.game_name = "pacmanjp" /\ q.game_name = "pacmanjp"
         /\ r.rom_id = q.rom_id /\ r.name # q.name
         /\ r.parent = "pacman" /\ q.parent = "pacman"

\* C10: in a session that began with init and before finish every
\* committed game_roms row has a null parent.
C10_ParentsNullBeforeFinish ==
    (inited /\ pc = "ingest") => \A r \in db.game_roms : r.parent = NONE

\* Before finish the store holds a row of a game and a row of its clone_of
\* with the same rom_id: a link that finish would write.
C10_Witness ==
    /\ inited /\ pc = "ingest"
    /\ \E r, q \in db.game_roms, g \in db.games :
         /\ g.name = r.game_name /\ g.clone_of = q.game_name
         /\ r.rom_id = q.rom_id

\* C11: a game whose clone_of is its own name is rejected at finish:
\* finish does not return Ok over a store that holds such a game, and in
\* no reachable state does a game_roms row have its own game_name as
\* parent.
C11_CyclesRejected ==
    /\ \A r \in db.game_roms : r.parent # r.game_name
    /\ FinishedOk => \A g \in db.games : g.clone_of # g.name

\* The entries of the session have pairwise distinct game names.
DistinctNames(es) ==
    \A i, j \in 1..Len(es) : es[i].game.name = es[j].game.name => i = j

\* The rows of the roms table with the digest tuple and size of file f.
RowsOfContent(d, f) ==
    {row \in d.roms : <<row.sha1, row.md5, row.crc>> = Digests(f) /\ row.size = f.size}

BufferEmpty(b) ==
    /\ b.games = EmptyMap
    /\ b.roms = {}
    /\ b.game_roms = EmptyMap
    /\ b.samples = EmptyMap

\* Every game of the session has its games row.
GamesStored == \A i \in 1..Len(seen) : GameRow(seen[i].game) \in db.games

\* Every rom of every entry has a game_roms row (game, rom_id, name) whose
\* rom_id is a roms row of the content of the rom.
MembersStored ==
    \A i \in 1..Len(seen) : \A f \in Range(seen[i].roms) :
       \E m \in db.game_roms :
          /\ m.game_name = seen[i].game.name
          /\ m.name = f.name
          /\ m.rom_id \in {row.id : row \in RowsOfContent(db, f)}

\* The roms table has one row for each content of the session.
OneRowPerContent ==
    \A i \in 1..Len(seen) : \A f \in Range(seen[i].roms) :
       Cardinality(RowsOfContent(db, f)) = 1

\* C12: after init, entries of pairwise distinct game names and a
\* successful finish, the buffer is empty and the store holds every game
\* of the session, one roms row for every content seen and a game_roms row
\* (game, rom_id, name) for every rom of every entry.
C12_NoEntryLost ==
    (FinishedOk /\ inited /\ DistinctNames(seen)) =>
       /\ BufferEmpty(buffer)
       /\ GamesStored
       /\ OneRowPerContent
       /\ MembersStored

\* init returned and left every table of the schema present and empty
\* and every other table as it was.
StoreReset ==
    /\ \A t \in ReservedTables : t \in schema.tables /\ schema.rows[t] = {}
    /\ \A t \in OtherTables :
          /\ t \in schema.tables <=> t \in schema_before.tables
          /\ schema.rows[t] = schema_before.rows[t]

\* C13: whatever tables and rows the file held, after init the tables
\* info, roms, games, game_roms, devices, disks, game_disks and samples
\* exist and are empty and the tables of other names are as they were; a
\* second init leaves the file as the first did.
C13_InitResets ==
    /\ ninits >= 1 => StoreReset
    /\ ninits >= 2 => schema = schema_before

\* C14: the mask get_file_checks returns has the bit of a column set
\* exactly when the count of that column is not zero, whatever the counts
\* of the other two columns.
C14_MaskCompleteness ==
    use_checks # <<>> =>
       /\ Contains(use_checks[1], FileChecks_SHA1) <=> counts.sha1 # 0
       /\ Contains(use_checks[1], FileChecks_MD5) <=> counts.md5 # 0
       /\ Contains(use_checks[1], FileChecks_CRC) <=> counts.crc # 0
       /\ use_checks[1] \in 0..FileChecks_ALL

\* Every mask 000..111 was returned, the last for a dataset with md5 values
\* only.
C14_Witness ==
    /\ produced = 0..FileChecks_ALL
    /\ use_checks = <<FileChecks_MD5>>
    /\ counts.sha1 = 0 /\ counts.md5 # 0 /\ counts.crc = 0

\* The last call is get_game_set.
GameSetCalled == rcall # <<>> /\ rcall[1].op = "get_game_set"

\* C15: get_game_set on a name for which get_game returns None returns
\* the GenericError that carries the name, no GameSet, and does not call
\* get_romset_roms; on a known name it returns the GameSet of that game
\* with the roms get_romset_roms returns for the name and mode, or the
\* error get_romset_roms returns.
C15_GameSetOfKnownGame ==
    GameSetCalled =>
      LET c    == rcall[1]
          game == reader.get_game[c.game_name]
          roms == reader.get_romset_roms[<<c.game_name, c.rom_mode>>]
      IN /\ game = <<>> =>
              /\ ~c.result.ok
              /\ c.result.game_set = <<>>
              /\ c.result.error =
                   <<[kind |-> "GenericError",
                      message |-> <<"Game ", c.game_name, " not found">>]>>
              /\ c.result.calls = <<"get_game">>
         /\ (game # <<>> /\ roms.ok) =>
              /\ c.result.ok
              /\ Len(c.result.game_set) = 1
              /\ c.result.game_set[1].game = game[1]
              /\ c.result.game_set[1].roms = roms.roms
         /\ (game # <<>> /\ ~roms.ok) =>
              /\ ~c.result.ok
              /\ c.result.game_set = <<>>
              /\ c.result.error = roms.error

\* get_game_set of a known game whose get_romset_roms fails in the mode
\* asked for and returns two roms in another mode.
C15_Witness ==
    /\ GameSetCalled
    /\ reader.get_game[rcall[1].game_name] # <<>>
    /\ ~reader.get_romset_roms[<<rcall[1].game_name, rcall[1].rom_mode>>].ok
    /\ \E m \in RomsetModes :
          Len(reader.get_romset_roms[<<rcall[1].game_name, m>>].roms) = 2
    /\ \E n \in GameNames : reader.get_game[n] = <<>>

\* C16: for a game whose sample_of names a pack with at least one sample,
\* the GameSet get_game_set returns has the samples of that pack.
C16_GameSetSamples ==
    GameSetCalled =>
      LET c    == rcall[1]
          game == reader.get_game[c.game_name]
      IN (c.result.ok /\ game[1].sample_of = "pacsnd" /\ reader.samples # {}) =>
            Range(c.result.game_set[1].samples) = reader.samples

\* Equality of two HashSet<DataFile>: each file of one has an equal file
\* in the other.
SameFiles(A, B) ==
    /\ \A x \in A : \E y \in B : DataFileEq(x, y)
    /\ \A y \in B : \E x \in A : DataFileEq(x, y)

\* The add_file_for_set calls so far.
AddedForSet == {c \in Range(added) : c.op = "add_file_for_set"}

\* The files added under a set name.
AddedTo(set_name) == {c.file : c \in {x \in AddedForSet : x.set_name = set_name}}

\* The last call is an add_file_for_set.
LastAddedForSet == added # <<>> /\ added[Len(added)].op = "add_file_for_set"

\* C17: set_results is the set of the (set, file) pairs added, whatever
\* their order and however often each was added: a set has one element
\* for equal files, and an add_file_for_set call leaves the files of every
\* other set and the unknowns as they were.
C17_SetSemantics ==
    /\ DOMAIN search.set_results = {c.set_name : c \in AddedForSet}
    /\ \A k \in DOMAIN search.set_results :
          /\ SameFiles(search.set_results[k], AddedTo(k))
          /\ \A x, y \in search.set_results[k] : DataFileEq(x, y) => x = y
    /\ LastAddedForSet =>
          /\ search.unknowns = search_before.unknowns
          /\ \A k \in DOMAIN search_before.set_results :
                k # added[Len(added)].set_name =>
                   /\ k \in DOMAIN search.set_results
                   /\ search.set_results[k] = search_before.set_results[k]
          /\ DOMAIN search.set_results \subseteq
                DOMAIN search_before.set_results \cup {added[Len(added)].set_name}

\* a.rom was added twice to pacman, the second time with a status, after a
\* file of pacmanjp: pacman has one file, pacmanjp keeps its own.
C17_Witness ==
    /\ Len(added) = 3
    /\ added[1].set_name = "pacmanjp"
    /\ added[2].set_name = "pacman" /\ added[2].file = MkFile("a.rom", "aa", NONE)
    /\ added[3].set_name = "pacman" /\ added[3].file.status = "baddump"
    /\ Cardinality(search.set_results["pacman"]) = 1
    /\ Cardinality(search.set_results["pacmanjp"]) = 1

\* The digest columns in which some roms row has a value.
Populated(d) ==
    [sha1 |-> \E r \in d.roms : r.sha1 # NONE,
     md5 |-> \E r \in d.roms : r.md5 # NONE,
     crc |-> \E r \in d.roms : r.crc # NONE]

\* No roms row agrees with the observed file on the populated columns the
\* file declares.
NoContent(d, f) ==
    ~ \E r \in d.roms :
         /\ (Populated(d).sha1 /\ f.sha1 # NONE) => r.sha1 = f.sha1
         /\ (Populated(d).md5 /\ f.md5 # NONE) => r.md5 = f.md5
         /\ (Populated(d).crc /\ f.crc # NONE) => r.crc = f.crc

RECURSIVE Unresolved(_, _)
Unresolved(d, roms) ==
    IF roms = <<>> THEN <<>>
    ELSE IF NoContent(d, Head(roms)) THEN <<Head(roms)>> \o Unresolved(d, Tail(roms))
    ELSE Unresolved(d, Tail(roms))

RomsetsFromRomsCalled == rcall # <<>> /\ rcall[1].op = "get_romsets_from_roms"

\* C18: get_romsets_from_roms puts in unknowns the observed files that
\* resolve to no content id, in input order and as often as they were
\* observed, and no other file; no set of set_results holds a file with
\* the digests of an unknown.
C18_UnknownFiles ==
    RomsetsFromRomsCalled =>
      LET c == rcall[1]
      IN /\ c.result.unknowns = Unresolved(db, c.roms)
         /\ \A k \in DOMAIN c.result.set_results :
               \A f \in c.result.set_results[k] :
                  \A i \in 1..Len(c.result.unknowns) :
                     Digests(f) # Digests(c.result.unknowns[i])

\* x.bin/zz is observed twice around a file of a known content: it is
\* twice in unknowns, the known file is under a set.
C18_Witness ==
    /\ RomsetsFromRomsCalled
    /\ Len(rcall[1].roms) = 3
    /\ rcall[1].result.unknowns = <<MkFile("x.bin", "zz", NONE), MkFile("x.bin", "zz", NONE)>>
    /\ rcall[1].result.set_results # EmptyMap

RomUsageCalled == rcall # <<>> /\ rcall[1].op = "find_rom_usage"

RomMap(d) == {<<<<r.sha1, r.md5, r.crc>>, r.id>> : r \in d.roms}

\* The session follows an interrupted one and has ingested its entries
\* again, in their order.
Rerun ==
    /\ prev # <<>>
    /\ Len(seen) >= Len(prev)
    /\ \A i \in 1..Len(prev) : seen[i] = prev[i]

\* C19: a session that follows an interrupted one, calls init and ingests
\* the same entries in the same order ends, after finish, with the
\* (digest tuple -> rom id) mapping of one uninterrupted session over
\* these entries.
C19_RerunDeterminism ==
    (FinishedOk /\ inited /\ Rerun) =>
       RomMap(db) = RomMap(Uninterrupted(seen, buffer_size))

\* The interrupted session ingested two entries, which left roms rows in
\* the store under some buffer_size; the new session has ingested both
\* again and finished with two rom ids.
C19_Witness ==
    /\ FinishedOk /\ inited /\ Rerun
    /\ Len(prev) = 2
    /\ \E size \in BufferSizes :
          IngestFrom(Buffer_new, init(EmptyDb), size, prev).db.roms # {}
    /\ Cardinality(RomIds(db)) = 2

\* A Vec<(u32, String)> in strictly ascending order of (id, name).
Ascending(l) == \A i \in 1..(Len(l) - 1) : PairLess(l[i], l[i + 1])

\* Every membership list of buffer b is strictly ascending.
ListsAscending(b) == \A g \in DOMAIN b.game_roms : Ascending(b.game_roms[g])

\* The (id, file) pairs get_rom_ids resolved in the last on_new_entry.
LastResolved ==
    LET e == last.entry[1]
    IN on_new_entry(last.prebuf, last.pre, buffer_size, e.game, e.roms, e.samples,
                    last.fault).resolved

\* C21: the membership list recorded for the game of an entry is sorted
\* ascending by (rom_id, local_name) with each pair once, and is the pairs
\* of the roms of the entry; so is every list of a buffer that is flushed,
\* whose inserts then have pairwise different (game, rom_id, name) keys.
C21_MembershipSortedUnique ==
    /\ ListsAscending(buffer)
    /\ \A b \in Range(last.batch) : ListsAscending(b)
    /\ (last.op = "on_new_entry" /\ result = "ok") =>
          LET e == last.entry[1]
          IN /\ e.game.name \in DOMAIN buffer.game_roms
             /\ Range(buffer.game_roms[e.game.name]) =
                   {<<p.id, p.file.name>> : p \in LastResolved}

\* An entry that lists a rom of the store, and a rom of the buffer twice,
\* has been recorded with a list of two pairs.
C21_Witness ==
    /\ last.op = "on_new_entry" /\ result = "ok"
    /\ LET e == last.entry[1]
       IN /\ \E i, j \in 1..Len(e.roms) : i # j /\ e.roms[i] = e.roms[j]
          /\ \E p \in LastResolved : p.id \in RomIds(db)
          /\ \E p \in LastResolved : p.id \in BufferedRomIds(buffer)
          /\ Len(buffer.game_roms[e.game.name]) = 2

\* The samples rows of the entries es: for every entry of a pack, a row
\* (pack, name) for each of its sample names.
SamplesOf(es) ==
    UNION {{[sample_set |-> es[i].game.sample_of, sample |-> x] : x \in Range(es[i].samples)}
             : i \in {k \in 1..Len(es) : es[k].game.sample_of # NONE}}

\* C22: after a finish that returned Ok and whose inserts met no storage
\* failure, the samples table holds, for every pack S, the union of the
\* sample names of the entries whose game has sample_of = S and nothing
\* else, whatever flushes the entries were split over; the samples of an
\* entry of no pack are not stored.
C22_SamplePacksAccumulate ==
    (FinishedOk /\ inited /\ last.fault = NoFault) => db.samples = SamplesOf(seen)

\* Two entries of one pack with different sample lists, the first list
\* committed by a flush before finish, the second by finish: the store
\* holds the two names of the pack.
C22_Witness ==
    /\ FinishedOk /\ inited /\ last.fault = NoFault
    /\ Len(seen) = 2
    /\ seen[1].game.sample_of = "pacsnd" /\ seen[2].game.sample_of = "pacsnd"
    /\ Range(seen[1].samples) # Range(seen[2].samples)
    /\ last.pre.samples # {}
    /\ last.prebuf.samples # EmptyMap
    /\ Cardinality(db.samples) = 2

\* An entry of no pack came with samples, and the session stored the
\* samples of another entry only.
C22_WitnessNoPack ==
    /\ FinishedOk /\ inited /\ last.fault = NoFault
    /\ \E i \in 1..Len(seen) : seen[i].game.sample_of = NONE /\ seen[i].samples # <<>>
    /\ db.samples # {}

\* The last call ran a flush that committed.
Committed == last.op \in {"on_new_entry", "finish"} /\ last.due /\ result = "ok"

\* C23: the games row a flush commits for a buffered game carries the
\* attributes of that game: its clone_of and its sample_of are those of
\* the game passed to on_new_entry.
C23_GameRowAttributes ==
    Committed =>
       \A b \in Range(last.batch) :
          \A n \in (DOMAIN b.games) \ GameNamesOf(last.pre) :
             \E row \in db.games :
                /\ row.name = n
                /\ row.clone_of = b.games[n].clone_of
                /\ row.sample_of = b.games[n].sample_of

\* The game_roms rows of entry e are committed: one for each of its roms,
\* under the name the entry gives it.
MembersCommitted(d, e) ==
    \A f \in Range(e.roms) :
       \E m \in d.game_roms : m.game_name = e.game.name /\ m.name = f.name

\* C24: in every committed state of the store of a session of entries of
\* pairwise distinct game names, a game that has its games row has the
\* game_roms rows of its entry as well.
C24_EntryConsistent ==
    (inited /\ DistinctNames(seen)) =>
       \A i \in 1..Len(seen) :
          seen[i].game.name \in GameNamesOf(db) => MembersCommitted(db, seen[i])

\* C25: in every state of the store, the rom_id of every game_roms row is
\* the id of a row of the roms table.
C25_MembershipReferences ==
    \A m \in db.game_roms : m.rom_id \in RomIds(db)

\* A flush has committed a game_roms row whose rom was committed by an
\* earlier flush and one whose rom it committed itself.
C25_Witness ==
    /\ Committed
    /\ \E m \in db.game_roms \ last.pre.game_roms : m.rom_id \in RomIds(last.pre)
    /\ \E m \in db.game_roms \ last.pre.game_roms :
          m.rom_id \in RomIds(db) \ RomIds(last.pre)

\* C26: for every buffer_size of 1..65535, after on_new_entry returned
\* the buffer holds at most buffer_size games and sample sets.
C26_ThresholdExact ==
    nentries > 0 => games_len + samples_len <= buffer_size

\* C27: a session of one writer over entries of pairwise distinct game
\* names that ended with finish has the roms table and the game_roms rows
\* that a session over the same entries in the same order has with any
\* other buffer_size.
C27_CadenceIndependence ==
    (FinishedOk /\ inited /\ prev = <<>> /\ DistinctNames(seen)) =>
       \A size \in BufferSizes :
          LET other == Uninterrupted(seen, size)
          IN /\ other.roms = db.roms
             /\ other.game_roms = db.game_roms

\* The selection is an index of the list.
SelectionValid == selected # <<>> /\ selected[1] < Len(db_list)

\* What the last key event did to the selection: Down on the last entry
\* selects the first, Up on the first selects the last, a key other than
\* Up and Down leaves the selection as it was.
WrapsAround ==
    key # <<>> =>
       /\ (key[1] = "Down" /\ selected_before = <<Len(db_list) - 1>>) => selected = <<0>>
       /\ (key[1] = "Up" /\ selected_before = <<0>>) => selected = <<Len(db_list) - 1>>
       /\ key[1] \notin {"Down", "Up"} => selected = selected_before

\* C28: for every list the widget is constructed with and every sequence
\* of key events, no event panics, the selection is an index of db_list,
\* and Up and Down wrap around.
C28_SelectionValid ==
    /\ ~panicked
    /\ SelectionValid
    /\ WrapsAround

====
